---- MODULE Spec2Model ----
(***************************************************************************)
(* The article generation service: POST /api/generate, GET /api/articles,  *)
(* GET and DELETE /api/articles/[id], over the "articles" table.           *)
(*                                                                         *)
(* Every handler is an async function; it is modelled as a process that    *)
(* runs from one await on a shared collaborator (the generation service,   *)
(* the database) to the next.  Session resolution and body parsing touch   *)
(* nothing shared, so they belong to the handler's first step.             *)
(***************************************************************************)
EXTENDS Integers, Sequences, FiniteSets, TLC

VARIABLES
    store,      \* the rows of table "articles"
    nextId,     \* the next value generateId() hands out
    now,        \* the latest instant new Date() returned
    apiKey,     \* process.env.OPENAI_API_KEY is set
    reqs,       \* the handlers in flight, one per slot
    response,   \* the HTTP response sent by the latest step, if it sent one
    call,       \* a function called on its own: its name, argument and return
    page        \* the dashboard page in the caller's browser

vars == <<store, nextId, now, apiKey, reqs, response, call, page>>

----------------------------------------------------------------------------
(* Bounds of the model *)

MaxArticles == 2    \* ids generateId() hands out before the model stops creating

Slots == {"h1", "h2"}   \* the handlers that may be in flight at once
Ids == 1..MaxArticles
Users == {"u1", "u2"}
NoUser == ""        \* session?.user?.id is falsy

----------------------------------------------------------------------------
(* JSON values, tagged with their JavaScript type *)

Str(s) == [t |-> "string", v |-> s]
Num(n) == [t |-> "number", v |-> n]
Bool(b) == [t |-> "boolean", v |-> b]
Obj(fields) == [t |-> "object", v |-> fields]
Undefined == [t |-> "undefined", v |-> "undefined"]
Null == [t |-> "null", v |-> "null"]
Fn(name) == [t |-> "function", v |-> name]

RECURSIVE Repeat(_, _)
Repeat(s, n) ==
    IF n = 0 THEN ""
    ELSE IF n % 2 = 0 THEN LET h == Repeat(s, n \div 2) IN h \o h
    ELSE s \o Repeat(s, n - 1)

----------------------------------------------------------------------------
(* generateRequestSchema: the zod schema of the request body *)

TitleMax == 200
KeywordsMax == 500

ArticleTypes ==
    {"None", "How-to guide", "Listicle", "Product review", "News", "Comparison",
     "Case study", "Opinion piece", "Tutorial", "Roundup post", "Q&A page"}
ArticleSizes == {"X-Small", "Small", "Medium", "Large"}
Tones ==
    {"None", "Friendly", "Professional", "Informational", "Transactional",
     "Inspirational", "Neutral", "Witty", "Casual", "Authoritative",
     "Encouraging", "Persuasive", "Poetic"}
PointsOfView ==
    {"None", "First person singular", "First person plural", "Second person",
     "Third person"}
Readabilities ==
    {"None", "5th grade", "6th grade", "7th grade", "8th & 9th grade",
     "10th to 12th grade", "College", "College graduate", "Professional"}
AiCleanings ==
    {"No AI Words Removal", "Basic AI Words Removal", "Extended AI Words Removal"}
StructureFlags ==
    {"conclusion", "faqSection", "tables", "h3Headings", "lists", "italics",
     "bold", "quotes", "keyTakeaways"}

zString(x, min, max) == x.t = "string" /\ Len(x.v) >= min /\ Len(x.v) <= max
zStringMin(x, min) == x.t = "string" /\ Len(x.v) >= min
zEnum(x, allowed) == x.t = "string" /\ x.v \in allowed
zBoolean(x) == x.t = "boolean"

structureSchema(x) ==
    /\ x.t = "object"
    /\ \A f \in StructureFlags : zBoolean(x.v[f])

\* the schema with no upper limit on the title's length
generateRequestSchema_NoTitleMax(body) ==
    /\ body.t = "object"
    /\ zStringMin(body.v.title, 1)
    /\ zString(body.v.keywords, 1, KeywordsMax)
    /\ zEnum(body.v.articleType, ArticleTypes)
    /\ zEnum(body.v.articleSize, ArticleSizes)
    /\ zEnum(body.v.tone, Tones)
    /\ zEnum(body.v.pointOfView, PointsOfView)
    /\ zEnum(body.v.readability, Readabilities)
    /\ zEnum(body.v.aiCleaning, AiCleanings)
    /\ structureSchema(body.v.structure)
    /\ zStringMin(body.v.language, 1)

\* generateRequestSchema.parse(body) does not throw a ZodError
generateRequestSchema(body) ==
    /\ body.t = "object"
    /\ zString(body.v.title, 1, TitleMax)
    /\ zString(body.v.keywords, 1, KeywordsMax)
    /\ zEnum(body.v.articleType, ArticleTypes)
    /\ zEnum(body.v.articleSize, ArticleSizes)
    /\ zEnum(body.v.tone, Tones)
    /\ zEnum(body.v.pointOfView, PointsOfView)
    /\ zEnum(body.v.readability, Readabilities)
    /\ zEnum(body.v.aiCleaning, AiCleanings)
    /\ structureSchema(body.v.structure)
    /\ zStringMin(body.v.language, 1)

----------------------------------------------------------------------------
(* The request bodies the model sends *)

Structure(on) == Obj([f \in StructureFlags |-> Bool(f \in on)])

ValidBody1 ==
    Obj([title |-> Str("Best Coffee"), keywords |-> Str("coffee,brew"),
         articleType |-> Str("Listicle"), articleSize |-> Str("Small"),
         tone |-> Str("Friendly"), pointOfView |-> Str("None"),
         readability |-> Str("None"), aiCleaning |-> Str("No AI Words Removal"),
         structure |-> Structure({"lists", "conclusion"}),
         language |-> Str("en")])

ValidBody2 ==
    Obj([title |-> Str("T"), keywords |-> Str("k"),
         articleType |-> Str("None"), articleSize |-> Str("Large"),
         tone |-> Str("None"), pointOfView |-> Str("Second person"),
         readability |-> Str("College"),
         aiCleaning |-> Str("Basic AI Words Removal"),
         structure |-> Structure({}),
         language |-> Str("x")])

\* title and keywords at their greatest allowed length
LongestBody ==
    Obj([ValidBody2.v EXCEPT !.title = Str(Repeat("t", TitleMax)),
                             !.keywords = Str(Repeat("k", KeywordsMax))])

With(field, value) == Obj([ValidBody1.v EXCEPT ![field] = value])

ValidBodies == {ValidBody1, ValidBody2, LongestBody}

InvalidBodies ==
    {With("title", Str("")), With("title", Str(Repeat("t", TitleMax + 1))),
     With("title", Num(7)), With("title", Undefined),
     With("keywords", Str("")),
     With("keywords", Str(Repeat("k", KeywordsMax + 1))),
     With("articleType", Str("Essay")), With("articleSize", Str("Huge")),
     With("tone", Str("Angry")), With("pointOfView", Str("Fourth person")),
     With("readability", Str("Doctorate")), With("aiCleaning", Str("None")),
     With("structure",
          Obj([Structure({"lists"}).v EXCEPT !["lists"] = Str("yes")])),
     With("structure", Undefined),
     With("language", Str("")), With("language", Undefined),
     Null}

\* request.json() throws a SyntaxError: the body is not JSON
MalformedJson == [t |-> "syntaxerror", v |-> "syntaxerror"]

Bodies == ValidBodies \cup InvalidBodies \cup {MalformedJson}


----------------------------------------------------------------------------
(* JavaScript property lookup and truthiness *)

\* the function-valued properties every object literal inherits
ObjectPrototypeFunctions ==
    {"constructor", "toString", "toLocaleString", "valueOf", "hasOwnProperty",
     "isPrototypeOf", "propertyIsEnumerable", "__defineGetter__",
     "__defineSetter__", "__lookupGetter__", "__lookupSetter__"}

ObjectPrototype == [t |-> "prototype", v |-> "Object.prototype"]

\* table[key], for a table written as an object literal
JsGet(table, key) ==
    IF key \in DOMAIN table THEN table[key]
    ELSE IF key \in ObjectPrototypeFunctions THEN Fn(key)
    ELSE IF key = "__proto__" THEN ObjectPrototype
    ELSE Undefined

\* truthiness that lets the empty string through
Truthy_EmptyStringPasses(x) ==
    CASE x.t = "undefined" -> FALSE
      [] x.t = "null" -> FALSE
      [] x.t = "boolean" -> x.v
      [] x.t = "number" -> x.v # 0
      [] OTHER -> TRUE

Truthy(x) ==
    CASE x.t = "undefined" -> FALSE
      [] x.t = "null" -> FALSE
      [] x.t = "boolean" -> x.v
      [] x.t = "number" -> x.v # 0
      [] x.t = "string" -> x.v # ""
      [] OTHER -> TRUE

\* a || b
JsOr(a, b) == IF Truthy(a) THEN a ELSE b

----------------------------------------------------------------------------
(* getMaxTokens *)

tokenLimits ==
    ("X-Small" :> Num(2000)) @@ ("Small" :> Num(4000)) @@
    ("Medium" :> Num(6000)) @@ ("Large" :> Num(8000))

getMaxTokens(articleSize) == JsOr(JsGet(tokenLimits, articleSize), Num(4000))

NoCall == [fn |-> "none", arg |-> Undefined, returned |-> FALSE, ret |-> Undefined]

\* the strings getMaxTokens is called with on its own: the sizes, the values
\* of the other fields, misspelt sizes and the names every object inherits
SizeArguments ==
    ArticleSizes \cup ArticleTypes \cup Tones \cup PointsOfView
        \cup Readabilities \cup AiCleanings \cup StructureFlags
        \cup ObjectPrototypeFunctions
        \cup {"__proto__", "", "small", "LARGE", "X-Large", "XL", "medium ", "0"}

\* getMaxTokens(articleSize) runs and returns
Return_getMaxTokens ==
    /\ call.fn = "getMaxTokens"
    /\ ~call.returned
    /\ call' = [call EXCEPT !.returned = TRUE, !.ret = getMaxTokens(call.arg.v)]
    /\ UNCHANGED <<store, nextId, now, apiKey, reqs, response, page>>

----------------------------------------------------------------------------
(* Strings: template literals, member access, join, search *)

\* `${x}`
JsString(x) ==
    CASE x.t = "string" -> x.v
      [] x.t = "undefined" -> "undefined"
      [] x.t = "null" -> "null"
      [] x.t = "function" ->
             "function " \o (IF x.v = "constructor" THEN "Object" ELSE x.v)
                 \o "() { [native code] }"
      [] OTHER -> "[object Object]"

TypeError == [t |-> "throw", v |-> "TypeError"]

\* x.field, for x that is neither undefined nor null
JsMember(x, field) ==
    IF x.t = "object" /\ field \in DOMAIN x.v THEN x.v[field] ELSE Undefined

\* items.join(sep)
RECURSIVE Join(_, _)
Join(items, sep) ==
    IF items = <<>> THEN ""
    ELSE IF Len(items) = 1 THEN items[1]
    ELSE items[1] \o sep \o Join(Tail(items), sep)

\* the positions at which needle occurs in text
Occurrences(text, needle) ==
    {i \in 1..(Len(text) - Len(needle) + 1) :
        SubSeq(text, i, i + Len(needle) - 1) = needle}

\* text.includes(needle)
Includes(text, needle) == Occurrences(text, needle) # {}

----------------------------------------------------------------------------
(* buildArticlePrompt *)

languageNames ==
    ("en" :> Str("English")) @@
    ("es" :> Str("Spanish")) @@
    ("fr" :> Str("French")) @@
    ("de" :> Str("German")) @@
    ("it" :> Str("Italian")) @@
    ("pt" :> Str("Portuguese")) @@
    ("nl" :> Str("Dutch")) @@
    ("pl" :> Str("Polish")) @@
    ("ru" :> Str("Russian")) @@
    ("ja" :> Str("Japanese")) @@
    ("ko" :> Str("Korean")) @@
    ("zh" :> Str("Chinese")) @@
    ("ar" :> Str("Arabic")) @@
    ("hi" :> Str("Hindi")) @@
    ("tr" :> Str("Turkish")) @@
    ("sv" :> Str("Swedish")) @@
    ("da" :> Str("Danish")) @@
    ("no" :> Str("Norwegian")) @@
    ("fi" :> Str("Finnish"))

sizeRequirements ==
    ("X-Small" :> Obj([words |-> Str("600-1200"), h2 |-> Str("2-5")])) @@
    ("Small" :> Obj([words |-> Str("1200-2400"), h2 |-> Str("5-8")])) @@
    ("Medium" :> Obj([words |-> Str("2400-3600"), h2 |-> Str("9-12")])) @@
    ("Large" :> Obj([words |-> Str("3600-5200"), h2 |-> Str("13-16")]))

toneInstructions ==
    ("Friendly" :> Str("Use a warm, approachable, and conversational tone")) @@
    ("Professional" :> Str("Maintain a formal, business-appropriate tone")) @@
    ("Informational" :> Str("Focus on providing clear, educational information")) @@
    ("Transactional" :> Str("Include clear calls-to-action and conversion-focused language")) @@
    ("Inspirational" :> Str("Use motivational and uplifting language")) @@
    ("Neutral" :> Str("Maintain an objective and unbiased tone")) @@
    ("Witty" :> Str("Include clever humor and wordplay where appropriate")) @@
    ("Casual" :> Str("Use informal, relaxed language")) @@
    ("Authoritative" :> Str("Demonstrate expertise and confidence")) @@
    ("Encouraging" :> Str("Use supportive and motivating language")) @@
    ("Persuasive" :> Str("Focus on convincing the reader of your viewpoint")) @@
    ("Poetic" :> Str("Use literary and expressive language"))

povInstructions ==
    ("First person singular" :> Str("Write from \"I\", \"me\", \"my\", \"mine\" perspective")) @@
    ("First person plural" :> Str("Write from \"we\", \"us\", \"our\", \"ours\" perspective")) @@
    ("Second person" :> Str("Write from \"you\", \"your\", \"yours\" perspective")) @@
    ("Third person" :> Str("Write from \"he\", \"she\", \"it\", \"they\" perspective"))

readabilityInstructions ==
    ("5th grade" :> Str("Use simple vocabulary and short sentences (11-year-old reading level)")) @@
    ("6th grade" :> Str("Use conversational language with moderate complexity")) @@
    ("7th grade" :> Str("Use fairly easy to read language with some complexity")) @@
    ("8th & 9th grade" :> Str("Use easily understood language with moderate complexity")) @@
    ("10th to 12th grade" :> Str("Use fairly difficult language with complex sentences")) @@
    ("College" :> Str("Use difficult language with academic vocabulary")) @@
    ("College graduate" :> Str("Use very difficult language with sophisticated vocabulary")) @@
    ("Professional" :> Str("Use extremely difficult language specific to the industry"))

cleaningInstructions ==
    ("Basic AI Words Removal" :> Str("Avoid common AI phrases like \"in conclusion\", \"furthermore\", \"moreover\", \"in addition\", etc.")) @@
    ("Extended AI Words Removal" :> Str("Eliminate all detectable AI patterns and phrases. Write like a human expert would naturally write."))

\* the flags in the order the builder tests them, each with its label
structureLabels ==
    <<<<"conclusion", "Conclusion section">>,
      <<"faqSection", "FAQ section">>,
      <<"tables", "Data tables">>,
      <<"h3Headings", "H3 subheadings within sections">>,
      <<"lists", "Bulleted or numbered lists">>,
      <<"italics", "Italic text for emphasis">>,
      <<"bold", "Bold text for emphasis">>,
      <<"quotes", "Relevant quotes">>,
      <<"keyTakeaways", "Key takeaways section">>>>

promptHeader(targetLanguage, title, keywords, sizeReq) ==
    "You are an expert SEO content writer. Write a comprehensive, SEO-optimized article in " \o JsString(targetLanguage) \o " based on the following specifications:"
    \o "\n\nTITLE: " \o JsString(title)
    \o "\nKEYWORDS: " \o JsString(keywords)
    \o "\n\nARTICLE REQUIREMENTS:"
    \o "\n- Target Language: " \o JsString(targetLanguage)
    \o "\n- Word Count: " \o JsString(JsMember(sizeReq, "words")) \o " words"
    \o "\n- H2 Headings: " \o JsString(JsMember(sizeReq, "h2")) \o " sections"
    \o "\n- Main Keywords: " \o JsString(keywords)

\* the article type clause, emitted for "None" too
articleTypeClause_Always(articleType) == "\n- Article Type: " \o JsString(articleType)

articleTypeClause(articleType) ==
    IF articleType # Str("None")
    THEN "\n- Article Type: " \o JsString(articleType)
    ELSE ""

\* prompt += `\n- <label>: ${instructions[value] || value}` unless value is
\* the neutral one
instructionClause(label, neutral, instructions, value) ==
    IF value # Str(neutral)
    THEN "\n- " \o label \o ": "
             \o JsString(JsOr(JsGet(instructions, value.v), value))
    ELSE ""

\* the labels with the flags tested from last to first
structureItems_Reversed(structure) ==
    LET kept == SelectSeq(structureLabels,
                          LAMBDA item : Truthy(JsMember(structure, item[1])))
    IN  [i \in 1..Len(kept) |-> kept[Len(kept) + 1 - i][2]]

structureItems(structure) ==
    LET kept == SelectSeq(structureLabels,
                          LAMBDA item : Truthy(JsMember(structure, item[1])))
    IN  [i \in 1..Len(kept) |-> kept[i][2]]

\* the line with the labels joined without the space
includeLine_NoSpace(items) ==
    IF Len(items) > 0 THEN "\n- Include: " \o Join(items, ",") ELSE ""

includeLine(items) ==
    IF Len(items) > 0 THEN "\n- Include: " \o Join(items, ", ") ELSE ""

contentGuidelines(targetLanguage, sizeReq) ==
    "\n\nCONTENT GUIDELINES:"
    \o "\n1. Create a compelling, SEO-friendly title that includes the main keywords"
    \o "\n2. Write an engaging introduction that hooks the reader and includes the primary keywords"
    \o "\n3. Develop " \o JsString(JsMember(sizeReq, "h2")) \o " well-structured H2 sections with relevant content"
    \o "\n4. Naturally incorporate the keywords throughout the content (" \o JsString(targetLanguage) \o " language)"
    \o "\n5. Ensure proper heading hierarchy (H1 > H2 > H3)"
    \o "\n6. Include meta descriptions and SEO best practices"
    \o "\n7. Write unique, valuable content that provides real insights"
    \o "\n8. Use proper grammar, spelling, and punctuation in " \o JsString(targetLanguage)
    \o "\n9. Ensure the content flows logically and is easy to read"
    \o "\n10. Include internal/external linking opportunities where relevant"
    \o "\n\nSEO REQUIREMENTS:"
    \o "\n- Keyword density: 1-2% for main keywords"
    \o "\n- Include LSI (Latent Semantic Indexing) keywords naturally"
    \o "\n- Use semantic HTML5 structure"
    \o "\n- Include meta title (50-60 characters) and description (150-160 characters)"
    \o "\n- Ensure mobile readability"
    \o "\n- Include relevant entities and concepts"
    \o "\n\nPlease write the complete article now. Start with the title, followed by the meta description, then the full article content. Make sure to follow all the specified requirements and create high-quality, engaging content that ranks well in search engines."

buildArticlePrompt(data) ==
    LET targetLanguage == JsOr(JsGet(languageNames, data.language.v), Str("English"))
        sizeReq == JsGet(sizeRequirements, data.articleSize.v)
    IN  IF sizeReq.t \in {"undefined", "null"}
        THEN TypeError
        ELSE Str(promptHeader(targetLanguage, data.title, data.keywords, sizeReq)
                 \o articleTypeClause(data.articleType)
                 \o instructionClause("Tone", "None", toneInstructions, data.tone)
                 \o instructionClause("Point of View", "None", povInstructions,
                                      data.pointOfView)
                 \o instructionClause("Readability Level", "None",
                                      readabilityInstructions, data.readability)
                 \o instructionClause("Content Style", "No AI Words Removal",
                                      cleaningInstructions, data.aiCleaning)
                 \o "\n\nSTRUCTURE REQUIREMENTS:"
                 \o includeLine(structureItems(data.structure))
                 \o contentGuidelines(targetLanguage, sizeReq))

\* the values an enumerated field or the language is given when the builder
\* is called on its own: the allowed values of every field, the language
\* codes, misspelt values and the names every object inherits
FieldArguments ==
    SizeArguments \cup DOMAIN languageNames \cup {"xx", "Sarcastic", "EN"}

PromptFields ==
    {"articleType", "articleSize", "tone", "pointOfView", "readability",
     "aiCleaning", "language"}

\* the settings buildArticlePrompt is called with on its own: every
\* combination of the structure flags, and every field given every argument
PromptArguments ==
    {[ValidBody1.v EXCEPT !.structure = Structure(on)] : on \in SUBSET StructureFlags}
        \cup {[ValidBody1.v EXCEPT ![f] = Str(a)] : f \in PromptFields, a \in FieldArguments}
        \cup {[ValidBody2.v EXCEPT ![f] = Str(a)] : f \in PromptFields, a \in FieldArguments}

\* buildArticlePrompt(data) runs and returns or throws
Return_buildArticlePrompt ==
    /\ call.fn = "buildArticlePrompt"
    /\ ~call.returned
    /\ call' = [call EXCEPT !.returned = TRUE, !.ret = buildArticlePrompt(call.arg.v)]
    /\ UNCHANGED <<store, nextId, now, apiKey, reqs, response, page>>

----------------------------------------------------------------------------
(* ArticleHistory: the filter and the sort of the history list *)

MaxHistory == 3     \* the longest articles prop the component is given

UpperToLower ==
    ("A" :> "a") @@ ("B" :> "b") @@ ("C" :> "c") @@ ("D" :> "d") @@ ("E" :> "e") @@
    ("F" :> "f") @@ ("G" :> "g") @@ ("H" :> "h") @@ ("I" :> "i") @@ ("J" :> "j") @@
    ("K" :> "k") @@ ("L" :> "l") @@ ("M" :> "m") @@ ("N" :> "n") @@ ("O" :> "o") @@
    ("P" :> "p") @@ ("Q" :> "q") @@ ("R" :> "r") @@ ("S" :> "s") @@ ("T" :> "t") @@
    ("U" :> "u") @@ ("V" :> "v") @@ ("W" :> "w") @@ ("X" :> "x") @@ ("Y" :> "y") @@
    ("Z" :> "z")

\* s.toLowerCase()
RECURSIVE toLowerCase(_)
toLowerCase(s) ==
    IF s = "" THEN ""
    ELSE LET c == SubSeq(s, 1, 1)
         IN  (IF c \in DOMAIN UpperToLower THEN UpperToLower[c] ELSE c)
                 \o toLowerCase(SubSeq(s, 2, Len(s)))

\* the order of the characters the model's titles are written in: space and
\* punctuation before digits before letters
CollationOrder == " -&0123456789abcdefghijklmnopqrstuvwxyz"

CollationRank(c) ==
    CHOOSE i \in 1..Len(CollationOrder) : SubSeq(CollationOrder, i, i) = c

\* the first position at which a and b differ, or 0
FirstDifference(a, b) ==
    LET n == IF Len(a) < Len(b) THEN Len(a) ELSE Len(b)
        diff == {i \in 1..n : SubSeq(a, i, i) # SubSeq(b, i, i)}
    IN  IF diff # {} THEN CHOOSE i \in diff : \A j \in diff : i <= j
        ELSE IF Len(a) # Len(b) THEN n + 1
        ELSE 0

\* a.localeCompare(b): letters compared without case first, a lower-case
\* letter before its capital when nothing else differs
localeCompare(a, b) ==
    LET la == toLowerCase(a)
        lb == toLowerCase(b)
        i == FirstDifference(la, lb)
        j == FirstDifference(a, b)
    IN  IF i # 0
        THEN IF i > Len(la) THEN -1
             ELSE IF i > Len(lb) THEN 1
             ELSE IF CollationRank(SubSeq(la, i, i)) < CollationRank(SubSeq(lb, i, i))
                  THEN -1 ELSE 1
        ELSE IF j = 0 THEN 0
        ELSE IF SubSeq(a, j, j) = SubSeq(la, j, j) THEN -1 ELSE 1

\* the search that does not lower the search term
matchesSearch_TermAsTyped(article, searchTerm) ==
    \/ Includes(toLowerCase(article.title), searchTerm)
    \/ Includes(toLowerCase(article.keywords), searchTerm)

matchesSearch(article, searchTerm) ==
    \/ Includes(toLowerCase(article.title), toLowerCase(searchTerm))
    \/ Includes(toLowerCase(article.keywords), toLowerCase(searchTerm))

matchesType(article, filterType) ==
    filterType = "all" \/ article.settings.articleType = filterType

\* the sizes ranked as their names sort
sizeOrder_ByName ==
    ("Large" :> 1) @@ ("Medium" :> 2) @@ ("Small" :> 3) @@ ("X-Small" :> 4)

sizeOrder ==
    ("X-Small" :> 1) @@ ("Small" :> 2) @@ ("Medium" :> 3) @@ ("Large" :> 4)

\* the sort callback
compareArticles(a, b, sortField, sortOrder) ==
    LET comparison ==
            CASE sortField = "createdAt" -> a.createdAt - b.createdAt
              [] sortField = "title" -> localeCompare(a.title, b.title)
              [] sortField = "articleSize" ->
                     sizeOrder[a.settings.articleSize]
                         - sizeOrder[b.settings.articleSize]
    IN  IF sortOrder = "asc" THEN comparison ELSE -comparison

\* Array.prototype.sort: the elements in the callback's order, those it
\* calls equal in the order they came in
StableSort(seq, sortField, sortOrder) ==
    LET n == Len(seq)
        perm == CHOOSE p \in [1..n -> 1..n] :
                    /\ \A i, j \in 1..n : i # j => p[i] # p[j]
                    /\ \A i, j \in 1..n :
                           i < j =>
                               LET c == compareArticles(seq[p[i]], seq[p[j]],
                                                        sortField, sortOrder)
                               IN  c < 0 \/ (c = 0 /\ p[i] < p[j])
    IN  [i \in 1..n |-> seq[perm[i]]]

filteredArticles(articles, searchTerm, filterType, sortField, sortOrder) ==
    StableSort(SelectSeq(articles,
                         LAMBDA article : /\ matchesSearch(article, searchTerm)
                                          /\ matchesType(article, filterType)),
               sortField, sortOrder)

\* the articles the list endpoint can hand to the component
HowToGuide ==
    [id |-> 1, title |-> "How-to Guide", keywords |-> "howto, steps",
     settings |-> [articleType |-> "How-to guide", articleSize |-> "Large"],
     createdAt |-> 3]

Recipe ==
    [id |-> 2, title |-> "Recipe", keywords |-> "cooking",
     settings |-> [articleType |-> "Listicle", articleSize |-> "X-Small"],
     createdAt |-> 1]

BestCoffee ==
    [id |-> 3, title |-> "Best Coffee", keywords |-> "coffee, brew GUIDE",
     settings |-> [articleType |-> "None", articleSize |-> "Medium"],
     createdAt |-> 2]

RecipeTwo ==
    [id |-> 4, title |-> "recipe 2", keywords |-> "Cooking",
     settings |-> [articleType |-> "Listicle", articleSize |-> "Large"],
     createdAt |-> 2]

SampleArticles == {HowToGuide, Recipe, BestCoffee, RecipeTwo}

\* the articles prop: rows with distinct ids, in any order
ArticleLists ==
    UNION {{seq \in [1..n -> SampleArticles] :
               \A i, j \in 1..n : i # j => seq[i] # seq[j]} : n \in 0..MaxHistory}

SearchTerms == {"", "guide", "GUIDE", "Co", "zzz"}

\* the items of the type select
FilterTypes == {"all"} \cup (ArticleTypes \ {"None"})

SortFields == {"createdAt", "title", "articleSize"}

\* the component with its four useState defaults, before its first render
Mount(articles) ==
    [fn |-> "ArticleHistory",
     arg |-> Obj([articles |-> articles, searchTerm |-> "", filterType |-> "all",
                  sortField |-> "createdAt", sortOrder |-> "desc"]),
     returned |-> FALSE,
     ret |-> Undefined]

\* a render of the component with the given state
Render(state) ==
    /\ call' = [call EXCEPT !.arg = Obj(state),
                            !.returned = TRUE,
                            !.ret = filteredArticles(state.articles, state.searchTerm,
                                                     state.filterType, state.sortField,
                                                     state.sortOrder)]
    /\ UNCHANGED <<store, nextId, now, apiKey, reqs, response, page>>

ArticleHistory_Render ==
    /\ call.fn = "ArticleHistory"
    /\ ~call.returned
    /\ Render(call.arg.v)

setSearchTerm(value) ==
    /\ call.fn = "ArticleHistory"
    /\ call.returned
    /\ Render([call.arg.v EXCEPT !.searchTerm = value])

setFilterType(value) ==
    /\ call.fn = "ArticleHistory"
    /\ call.returned
    /\ Render([call.arg.v EXCEPT !.filterType = value])

setSortField(value) ==
    /\ call.fn = "ArticleHistory"
    /\ call.returned
    /\ Render([call.arg.v EXCEPT !.sortField = value])

\* onClick of the order button
toggleSortOrder ==
    /\ call.fn = "ArticleHistory"
    /\ call.returned
    /\ Render([call.arg.v EXCEPT
                   !.sortOrder = IF call.arg.v.sortOrder = "asc" THEN "desc" ELSE "asc"])

----------------------------------------------------------------------------
(* The dashboard page: Page with its hooks useArticles, useGenerateArticle *)
(* and useDeleteArticle.  A fetch is answered ok or not; what the server   *)
(* does with it is the handlers' business.  What follows an await runs     *)
(* when the fetch is answered, as one step.                                *)

NoArticle == 0      \* selectedArticle is null

\* at most this many delete requests are in flight at a time
MaxDeletes == 2

\* the page after its first render: useState("generate"), useState(null),
\* the form at its default values, no data in the query cache yet
InitialPage ==
    [activeTab |-> "generate",
     selectedArticle |-> NoArticle,
     formDirty |-> FALSE,       \* the form holds values the user typed
     generating |-> FALSE,      \* generateMutation.isPending
     deletes |-> {},            \* the delete requests in flight
     articles |-> {},           \* the ids in the ["articles"] query data
     stale |-> TRUE,            \* the query is to be fetched again
     remote |-> {},             \* the ids of the user's articles on the server
     toast |-> ""]              \* the toast the latest step showed

PageStep(next) ==
    /\ page' = next
    /\ UNCHANGED <<store, now, apiKey, reqs, response, call>>

\* the user types into the form
EditForm ==
    /\ page.activeTab = "generate"
    /\ PageStep([page EXCEPT !.formDirty = TRUE, !.toast = ""])
    /\ UNCHANGED nextId

\* the submit button, disabled while isLoading: handleSubmit up to its await
SubmitForm ==
    /\ page.activeTab = "generate"
    /\ page.formDirty
    /\ ~page.generating
    /\ PageStep([page EXCEPT !.generating = TRUE, !.toast = ""])
    /\ UNCHANGED nextId

\* handleGenerateArticle that moves to the history tab whatever the answer
GenerateReturns_AlwaysToHistory(ok) ==
    /\ page.generating
    /\ IF ok
       THEN /\ nextId <= MaxArticles
            /\ PageStep([page EXCEPT !.generating = FALSE,
                                     !.remote = @ \cup {nextId},
                                     !.stale = TRUE,
                                     !.activeTab = "history",
                                     !.formDirty = FALSE,
                                     !.toast = "Article generated successfully!"])
            /\ nextId' = nextId + 1
       ELSE /\ PageStep([page EXCEPT !.generating = FALSE,
                                     !.activeTab = "history",
                                     !.formDirty = FALSE,
                                     !.toast = "Failed to generate article"])
            /\ UNCHANGED nextId

\* the fetch of useGenerateArticle is answered: onSuccess or onError, then
\* the rest of handleGenerateArticle and of handleSubmit
GenerateReturns(ok) ==
    /\ page.generating
    /\ IF ok
       THEN /\ nextId <= MaxArticles
            /\ PageStep([page EXCEPT !.generating = FALSE,
                                     !.remote = @ \cup {nextId},
                                     !.stale = TRUE,
                                     !.activeTab = "history",
                                     !.formDirty = FALSE,
                                     !.toast = "Article generated successfully!"])
            /\ nextId' = nextId + 1
       ELSE /\ PageStep([page EXCEPT !.generating = FALSE,
                                     !.toast = "Failed to generate article"])
            /\ UNCHANGED nextId

\* the query function of useArticles runs and its data arrive
Refetch ==
    /\ page.stale
    /\ PageStep([page EXCEPT !.articles = page.remote, !.stale = FALSE,
                             !.toast = ""])
    /\ UNCHANGED nextId

\* the tab triggers with the view trigger never disabled
setActiveTab_ViewEnabled(value) ==
    /\ value # page.activeTab
    /\ PageStep([page EXCEPT !.activeTab = value,
                             !.formDirty = IF page.activeTab = "generate"
                                           THEN FALSE ELSE @,
                             !.toast = ""])
    /\ UNCHANGED nextId

\* a tab trigger; the view trigger is disabled while nothing is selected,
\* and the form is unmounted with the generate tab
setActiveTab(value) ==
    /\ value # page.activeTab
    /\ value = "view" => page.selectedArticle # NoArticle
    /\ PageStep([page EXCEPT !.activeTab = value,
                             !.formDirty = IF page.activeTab = "generate"
                                           THEN FALSE ELSE @,
                             !.toast = ""])
    /\ UNCHANGED nextId

\* a click on an article of the history list
handleSelectArticle(article) ==
    /\ page.activeTab = "history"
    /\ article \in page.articles
    /\ PageStep([page EXCEPT !.selectedArticle = article, !.activeTab = "view",
                             !.toast = ""])
    /\ UNCHANGED nextId

\* a click on an article's delete button, confirmed: handleDelete and
\* handleDeleteArticle up to the await, with the selectedArticle of this render
DeleteStart(articleId) ==
    /\ page.activeTab = "history"
    /\ articleId \in page.articles
    /\ Cardinality(page.deletes) < MaxDeletes
    /\ PageStep([page EXCEPT
                     !.deletes = @ \cup {[articleId |-> articleId,
                                          selectedArticle |-> page.selectedArticle]},
                     !.toast = ""])
    /\ UNCHANGED nextId

\* the fetch of useDeleteArticle is answered: onSuccess or onError, then the
\* rest of handleDeleteArticle and of handleDelete
DeleteReturns(d, ok) ==
    /\ d \in page.deletes
    /\ ok => d.articleId \in page.remote
    /\ IF ok
       THEN PageStep([page EXCEPT
                          !.deletes = @ \ {d},
                          !.remote = @ \ {d.articleId},
                          !.stale = TRUE,
                          !.selectedArticle =
                              IF d.selectedArticle = d.articleId THEN NoArticle ELSE @,
                          !.activeTab =
                              IF d.selectedArticle = d.articleId THEN "history" ELSE @,
                          !.toast = "Article deleted successfully!"])
       ELSE PageStep([page EXCEPT !.deletes = @ \ {d},
                                  !.toast = "Failed to delete article"])
    /\ UNCHANGED nextId

----------------------------------------------------------------------------
(* Requests, responses and rows *)

NoId == 0
NoJson == [none |-> TRUE]
NoRow == [id |-> NoId]

\* the generation service has not answered
NoResult == [kind |-> "none", content |-> Undefined, type |-> ""]

Idle ==
    [pc |-> "idle", op |-> "none", sessionOk |-> TRUE, session |-> NoUser,
     id |-> NoId,
     body |-> Undefined, calls |-> <<>>, maxTokens |-> Undefined,
     result |-> NoResult,
     generatedContent |-> Undefined, articleData |-> NoRow, connected |-> TRUE]

NoResponse ==
    [op |-> "none", sessionOk |-> TRUE, session |-> NoUser, id |-> NoId,
     body |-> Undefined,
     status |-> 0, error |-> "", json |-> NoJson, calls |-> <<>>,
     result |-> NoResult,
     generatedContent |-> Undefined, connected |-> TRUE]

\* NextResponse.json(json, {status}) ends the handler in slot s, whose state was r
Respond(s, r, status, error, json) ==
    /\ reqs' = [reqs EXCEPT ![s] = Idle]
    /\ response' =
           [op |-> r.op, sessionOk |-> r.sessionOk, session |-> r.session,
            id |-> r.id, body |-> r.body,
            status |-> status, error |-> error, json |-> json,
            calls |-> r.calls, result |-> r.result,
            generatedContent |-> r.generatedContent,
            connected |-> r.connected]

\* the step goes on to its next await and sends nothing
Await(s, r) ==
    /\ reqs' = [reqs EXCEPT ![s] = r]
    /\ response' = NoResponse

\* what auth.api.getSession resolves to, or that it throws
SessionResults ==
    {[ok |-> TRUE, user |-> u] : u \in Users \cup {NoUser}}
        \cup {[ok |-> FALSE, user |-> NoUser]}

----------------------------------------------------------------------------
(* The errors POST's catch block tells apart *)

Thrown(class, hasError, type, hasCode, code) ==
    [class |-> class, hasError |-> hasError, type |-> type,
     hasCode |-> hasCode, code |-> code]

PlainError == Thrown("Error", FALSE, "", FALSE, "")
SyntaxError == Thrown("SyntaxError", FALSE, "", FALSE, "")
ZodError == Thrown("ZodError", FALSE, "", FALSE, "")
APIError(type) == Thrown("APIError", TRUE, type, TRUE, type)
DatabaseError(code) == Thrown("DatabaseError", FALSE, "", TRUE, code)

\* the catch block without the branch for insufficient_quota
POST_catch_NoQuotaBranch(error) ==
    IF error.class = "ZodError"
    THEN [status |-> 400, error |-> "Invalid request data"]
    ELSE IF error.hasError /\ error.type = "invalid_request_error"
    THEN [status |-> 400,
          error |-> "Invalid AI service request. Please try again."]
    ELSE IF error.hasCode /\ error.code = "23505"
    THEN [status |-> 409, error |-> "Duplicate article detected."]
    ELSE [status |-> 500,
          error |-> "Failed to generate article. Please try again."]

POST_catch(error) ==
    IF error.class = "ZodError"
    THEN [status |-> 400, error |-> "Invalid request data"]
    ELSE IF error.hasError /\ error.type = "insufficient_quota"
    THEN [status |-> 503,
          error |-> "AI service temporarily unavailable. Please try again later."]
    ELSE IF error.hasError /\ error.type = "invalid_request_error"
    THEN [status |-> 400,
          error |-> "Invalid AI service request. Please try again."]
    ELSE IF error.hasCode /\ error.code = "23505"
    THEN [status |-> 409, error |-> "Duplicate article detected."]
    ELSE [status |-> 500,
          error |-> "Failed to generate article. Please try again."]

RespondCaught(s, r, error) ==
    Respond(s, r, POST_catch(error).status, POST_catch(error).error, NoJson)

----------------------------------------------------------------------------
(* The collaborators' answers *)

\* openai.chat.completions.create resolves (content is
\* choices[0]?.message?.content) or rejects
Completions ==
    {[kind |-> "resolves", content |-> c, type |-> ""] :
        c \in {Str("Article text A"), Str("Article text B"), Str(""), Undefined}}
Rejections ==
    {[kind |-> "rejects", content |-> Undefined, type |-> t] :
        t \in {"insufficient_quota", "invalid_request_error", "server_error"}}
        \cup {[kind |-> "fails", content |-> Undefined, type |-> ""]}
OpenAIResults == Completions \cup Rejections

\* every kind of answer, with one text
MainResults == {r \in OpenAIResults : r.content # Str("Article text B")}

\* the database's own failures; "none" when the statement runs
DbFailures == {"none", "ECONNREFUSED", "23503"}

generateId == nextId


----------------------------------------------------------------------------
(* POST /api/generate *)

\* from the request's arrival to the await on the generation service
\* the handler that calls the generation service without looking for the key
POST_Begin_NoKeyCheck(s, sess, body) ==
    /\ reqs[s].pc = "idle"
    /\ LET r == [Idle EXCEPT !.op = "generate", !.sessionOk = sess.ok,
                             !.session = sess.user,
                             !.body = body, !.calls = <<"getSession">>]
       IN  IF ~sess.ok THEN RespondCaught(s, r, PlainError)
           ELSE IF sess.user = NoUser
           THEN Respond(s, r, 401,
                        "Unauthorized. Please sign in to generate articles.",
                        NoJson)
           ELSE IF body.t = "syntaxerror" THEN RespondCaught(s, r, SyntaxError)
           ELSE IF ~generateRequestSchema(body) THEN RespondCaught(s, r, ZodError)
           ELSE Await(s, [r EXCEPT
                    !.pc = "awaitOpenAI",
                    !.calls = Append(r.calls, "openai.chat.completions.create"),
                    !.maxTokens = getMaxTokens(body.v.articleSize.v)])
    /\ UNCHANGED <<store, nextId, now, apiKey, call, page>>

POST_Begin(s, sess, body) ==
    /\ reqs[s].pc = "idle"
    /\ LET r == [Idle EXCEPT !.op = "generate", !.sessionOk = sess.ok,
                             !.session = sess.user,
                             !.body = body, !.calls = <<"getSession">>]
       IN  IF ~sess.ok THEN RespondCaught(s, r, PlainError)
           ELSE IF sess.user = NoUser
           THEN Respond(s, r, 401,
                        "Unauthorized. Please sign in to generate articles.",
                        NoJson)
           ELSE IF body.t = "syntaxerror" THEN RespondCaught(s, r, SyntaxError)
           ELSE IF ~generateRequestSchema(body) THEN RespondCaught(s, r, ZodError)
           ELSE IF ~apiKey
           THEN Respond(s, r, 500,
                        "AI service configuration error. Please contact support.",
                        NoJson)
           ELSE Await(s, [r EXCEPT
                    !.pc = "awaitOpenAI",
                    !.calls = Append(r.calls, "openai.chat.completions.create"),
                    !.maxTokens = getMaxTokens(body.v.articleSize.v)])
    /\ UNCHANGED <<store, nextId, now, apiKey, call, page>>

\* the row with the tone stored as the readability
articleData_ReadabilityFromTone(id, userId, validatedData, generatedContent, createdAt, updatedAt) ==
    [id |-> id,
     userId |-> userId,
     title |-> validatedData.title,
     content |-> generatedContent,
     keywords |-> validatedData.keywords,
     settings |->
         [articleType |-> validatedData.articleType,
          articleSize |-> validatedData.articleSize,
          tone |-> validatedData.tone,
          pointOfView |-> validatedData.pointOfView,
          readability |-> validatedData.tone,
          aiCleaning |-> validatedData.aiCleaning,
          structure |-> validatedData.structure,
          language |-> validatedData.language],
     createdAt |-> createdAt,
     updatedAt |-> updatedAt]

\* the row POST builds from the validated body and the generated content
articleData(id, userId, validatedData, generatedContent, createdAt, updatedAt) ==
    [id |-> id,
     userId |-> userId,
     title |-> validatedData.title,
     content |-> generatedContent,
     keywords |-> validatedData.keywords,
     settings |->
         [articleType |-> validatedData.articleType,
          articleSize |-> validatedData.articleSize,
          tone |-> validatedData.tone,
          pointOfView |-> validatedData.pointOfView,
          readability |-> validatedData.readability,
          aiCleaning |-> validatedData.aiCleaning,
          structure |-> validatedData.structure,
          language |-> validatedData.language],
     createdAt |-> createdAt,
     updatedAt |-> updatedAt]

\* the generation service answers: from there to the await on db.insert
\* the check that catches a missing text and lets an empty one through
generatedContentMissing_OnlyUndefined(generatedContent) ==
    generatedContent = Undefined

\* if (!generatedContent)
generatedContentMissing(generatedContent) == ~Truthy(generatedContent)

\* the handler that sends the generation request again after a failed one
POST_OpenAIReturns_RetryOnce(s, result, createdAt, updatedAt) ==
    /\ reqs[s].pc = "awaitOpenAI"
    /\ LET r == [reqs[s] EXCEPT !.result = result]
       IN  IF result.kind = "rejects"
           THEN /\ RespondCaught(s, r, APIError(result.type))
                /\ UNCHANGED <<nextId, now>>
           ELSE IF result.kind = "fails"
           THEN /\ IF Len(r.calls) < 3
                   THEN Await(s, [r EXCEPT !.calls =
                                      Append(r.calls, "openai.chat.completions.create")])
                   ELSE RespondCaught(s, r, PlainError)
                /\ UNCHANGED <<nextId, now>>
           ELSE IF generatedContentMissing(result.content)
           THEN /\ Respond(s, [r EXCEPT !.generatedContent = result.content],
                           500,
                           "Failed to generate article content. Please try again.",
                           NoJson)
                /\ UNCHANGED <<nextId, now>>
           ELSE /\ nextId <= MaxArticles
                /\ now <= createdAt
                /\ createdAt <= updatedAt
                /\ Await(s, [r EXCEPT
                       !.pc = "awaitInsert",
                       !.calls = Append(r.calls, "db.insert"),
                       !.generatedContent = result.content,
                       !.articleData =
                           articleData(generateId, r.session, r.body.v,
                                       result.content, createdAt, updatedAt)])
                /\ nextId' = nextId + 1
                /\ now' = updatedAt
    /\ UNCHANGED <<store, apiKey, call, page>>

POST_OpenAIReturns(s, result, createdAt, updatedAt) ==
    /\ reqs[s].pc = "awaitOpenAI"
    /\ LET r == [reqs[s] EXCEPT !.result = result]
       IN  IF result.kind = "rejects"
           THEN /\ RespondCaught(s, r, APIError(result.type))
                /\ UNCHANGED <<nextId, now>>
           ELSE IF result.kind = "fails"
           THEN /\ RespondCaught(s, r, PlainError)
                /\ UNCHANGED <<nextId, now>>
           ELSE IF generatedContentMissing(result.content)
           THEN /\ Respond(s, [r EXCEPT !.generatedContent = result.content],
                           500,
                           "Failed to generate article content. Please try again.",
                           NoJson)
                /\ UNCHANGED <<nextId, now>>
           ELSE /\ nextId <= MaxArticles
                /\ now <= createdAt
                /\ createdAt <= updatedAt
                /\ Await(s, [r EXCEPT
                       !.pc = "awaitInsert",
                       !.calls = Append(r.calls, "db.insert"),
                       !.generatedContent = result.content,
                       !.articleData =
                           articleData(generateId, r.session, r.body.v,
                                       result.content, createdAt, updatedAt)])
                /\ nextId' = nextId + 1
                /\ now' = updatedAt
    /\ UNCHANGED <<store, apiKey, call, page>>

\* the success body POST returns
\* the success body with the keywords as the title
generateSuccess_KeywordsAsTitle(row) ==
    [success |-> TRUE, articleId |-> row.id, title |-> row.keywords,
     content |-> row.content, settings |-> row.settings]

generateSuccess(row) ==
    [success |-> TRUE, articleId |-> row.id, title |-> row.title,
     content |-> row.content, settings |-> row.settings]

\* the insert not awaited: its failure goes unseen and success is returned
POST_InsertReturns_NotAwaited(s, failure) ==
    /\ reqs[s].pc = "awaitInsert"
    /\ LET r == reqs[s]
           row == r.articleData
           code == IF \E a \in store : a.id = row.id THEN "23505" ELSE failure
       IN  /\ store' = IF code = "none" THEN store \cup {row} ELSE store
           /\ Respond(s, r, 200, "", generateSuccess(row))
    /\ UNCHANGED <<nextId, now, apiKey, call, page>>

\* db.insert(articles).values(articleData): "id" is the primary key
POST_InsertReturns(s, failure) ==
    /\ reqs[s].pc = "awaitInsert"
    /\ LET r == reqs[s]
           row == r.articleData
           code == IF \E a \in store : a.id = row.id THEN "23505" ELSE failure
       IN  IF code = "none"
           THEN /\ store' = store \cup {row}
                /\ Respond(s, r, 200, "", generateSuccess(row))
           ELSE /\ RespondCaught(s, r, DatabaseError(code))
                /\ UNCHANGED store
    /\ UNCHANGED <<nextId, now, apiKey, call, page>>

----------------------------------------------------------------------------
(* GET /api/articles *)

GET_articles_Begin(s, sess) ==
    /\ reqs[s].pc = "idle"
    /\ LET r == [Idle EXCEPT !.op = "list", !.sessionOk = sess.ok,
                             !.session = sess.user,
                             !.calls = <<"getSession">>]
       IN  IF ~sess.ok
           THEN Respond(s, r, 500, "Failed to fetch articles", NoJson)
           ELSE IF sess.user = NoUser
           THEN Respond(s, r, 401, "Unauthorized", NoJson)
           ELSE Await(s, [r EXCEPT !.pc = "awaitDb",
                                   !.calls = Append(r.calls, "db.select")])
    /\ UNCHANGED <<store, nextId, now, apiKey, call, page>>

\* the orders .orderBy(desc(articles.createdAt)) may return the rows in
OrderByCreatedAtDesc(rows) ==
    {seq \in [1..Cardinality(rows) -> rows] :
        /\ \A i, j \in DOMAIN seq : i # j => seq[i] # seq[j]
        /\ \A i, j \in DOMAIN seq :
               i < j => seq[i].createdAt >= seq[j].createdAt}

\* the select without its where clause
selectByUserId_NoWhere(userId) == store

\* select().from(articles).where(eq(articles.userId, session.user.id))
selectByUserId(userId) == {a \in store : a.userId = userId}

GET_articles_Select(s, failure) ==
    /\ reqs[s].pc = "awaitDb"
    /\ reqs[s].op = "list"
    /\ LET r == reqs[s]
       IN  IF failure # "none"
           THEN Respond(s, r, 500, "Failed to fetch articles", NoJson)
           ELSE \E userArticles \in OrderByCreatedAtDesc(selectByUserId(r.session)) :
                    Respond(s, r, 200, "", userArticles)
    /\ UNCHANGED <<store, nextId, now, apiKey, call, page>>

----------------------------------------------------------------------------
(* GET /api/articles/[id] *)

GET_article_Begin(s, sess, articleId) ==
    /\ reqs[s].pc = "idle"
    /\ LET r == [Idle EXCEPT !.op = "get", !.sessionOk = sess.ok,
                             !.session = sess.user,
                             !.id = articleId, !.calls = <<"getSession">>]
       IN  IF ~sess.ok
           THEN Respond(s, r, 500, "Failed to fetch article", NoJson)
           ELSE IF sess.user = NoUser
           THEN Respond(s, r, 401, "Unauthorized", NoJson)
           ELSE IF articleId = NoId
           THEN Respond(s, r, 400, "Article ID is required", NoJson)
           ELSE Await(s, [r EXCEPT !.pc = "awaitDb",
                                   !.calls = Append(r.calls, "db.select")])
    /\ UNCHANGED <<store, nextId, now, apiKey, call, page>>

\* select().from(articles).where(eq(articles.id, articleId)).limit(1)
selectById(userId, articleId) == {a \in store : a.id = articleId}

GET_article_Select(s, failure) ==
    /\ reqs[s].pc = "awaitDb"
    /\ reqs[s].op = "get"
    /\ LET r == reqs[s]
           article == selectById(r.session, r.id)
       IN  IF failure # "none"
           THEN Respond(s, r, 500, "Failed to fetch article", NoJson)
           ELSE IF article = {}
           THEN Respond(s, r, 404,
                    "Article not found or you don't have permission to access it",
                    NoJson)
           ELSE \E a \in article : Respond(s, r, 200, "", a)
    /\ UNCHANGED <<store, nextId, now, apiKey, call, page>>

----------------------------------------------------------------------------
(* DELETE /api/articles/[id] *)

\* DELETE without its check of the session
DELETE_Begin_NoSessionCheck(s, sess, articleId) ==
    /\ reqs[s].pc = "idle"
    /\ LET r == [Idle EXCEPT !.op = "delete", !.sessionOk = sess.ok,
                             !.session = sess.user,
                             !.id = articleId, !.calls = <<"getSession">>]
       IN  IF ~sess.ok
           THEN Respond(s, r, 500, "Failed to delete article", NoJson)
           ELSE Await(s, [r EXCEPT !.pc = "awaitDb",
                                   !.calls = Append(r.calls, "db.delete")])
    /\ UNCHANGED <<store, nextId, now, apiKey, call, page>>

DELETE_Begin(s, sess, articleId) ==
    /\ reqs[s].pc = "idle"
    /\ LET r == [Idle EXCEPT !.op = "delete", !.sessionOk = sess.ok,
                             !.session = sess.user,
                             !.id = articleId, !.calls = <<"getSession">>]
       IN  IF ~sess.ok
           THEN Respond(s, r, 500, "Failed to delete article", NoJson)
           ELSE IF sess.user = NoUser
           THEN Respond(s, r, 401, "Unauthorized", NoJson)
           ELSE IF articleId = NoId
           THEN Respond(s, r, 400, "Article ID is required", NoJson)
           ELSE Await(s, [r EXCEPT !.pc = "awaitDb",
                                   !.calls = Append(r.calls, "db.delete")])
    /\ UNCHANGED <<store, nextId, now, apiKey, call, page>>

\* delete(articles).where(eq(articles.id, articleId)): the rows it removes
\* the delete of every row of the caller
deleteWhere_AllOfUser(userId, articleId) == {a \in store : a.userId = userId}

deleteWhere(userId, articleId) == {a \in store : a.id = articleId}

\* the delete answering success whether or not it removed a row
DELETE_Returning_NoLengthCheck(s, failure) ==
    /\ reqs[s].pc = "awaitDb"
    /\ reqs[s].op = "delete"
    /\ LET r == reqs[s]
           deleteResult == deleteWhere(r.session, r.id)
       IN  IF failure # "none"
           THEN /\ Respond(s, r, 500, "Failed to delete article", NoJson)
                /\ UNCHANGED store
           ELSE /\ store' = store \ deleteResult
                /\ Respond(s, r, 200, "", [success |-> TRUE])
    /\ UNCHANGED <<nextId, now, apiKey, call, page>>

DELETE_Returning(s, failure) ==
    /\ reqs[s].pc = "awaitDb"
    /\ reqs[s].op = "delete"
    /\ LET r == reqs[s]
           deleteResult == deleteWhere(r.session, r.id)
       IN  IF failure # "none"
           THEN /\ Respond(s, r, 500, "Failed to delete article", NoJson)
                /\ UNCHANGED store
           ELSE /\ store' = store \ deleteResult
                /\ IF deleteResult = {}
                   THEN Respond(s, r, 404,
                            "Article not found or you don't have permission to delete it",
                            NoJson)
                   ELSE Respond(s, r, 200, "", [success |-> TRUE])
    /\ UNCHANGED <<nextId, now, apiKey, call, page>>

----------------------------------------------------------------------------
(* The caller goes away while generation or the insert is pending; the     *)
(* handler never looks at the connection                                    *)

Disconnect(s) ==
    /\ reqs[s].pc \in {"awaitOpenAI", "awaitInsert"}
    /\ reqs[s].connected
    /\ Await(s, [reqs[s] EXCEPT !.connected = FALSE])
    /\ UNCHANGED <<store, nextId, now, apiKey, call, page>>

----------------------------------------------------------------------------

Init ==
    /\ store = {}
    /\ nextId = 1
    /\ now = 0
    /\ apiKey \in BOOLEAN
    /\ reqs = [s \in Slots |-> Idle]
    /\ response = NoResponse
    /\ page = InitialPage
    /\ call = NoCall

\* one step of one handler; the callers' requests and the collaborators'
\* answers are drawn from the given sets
Step(slots, sessions, bodies, results, failures, instants) ==
    \E s \in slots :
        \/ \E sess \in sessions, body \in bodies : POST_Begin(s, sess, body)
        \/ \E result \in results, createdAt, updatedAt \in instants :
               POST_OpenAIReturns(s, result, createdAt, updatedAt)
        \/ \E failure \in failures : POST_InsertReturns(s, failure)
        \/ \E sess \in sessions : GET_articles_Begin(s, sess)
        \/ \E failure \in failures : GET_articles_Select(s, failure)
        \/ \E sess \in sessions, articleId \in Ids :
               GET_article_Begin(s, sess, articleId)
        \/ \E failure \in failures : GET_article_Select(s, failure)
        \/ \E sess \in sessions, articleId \in Ids :
               DELETE_Begin(s, sess, articleId)
        \/ \E failure \in failures : DELETE_Returning(s, failure)
        \/ Disconnect(s)

\* two callers and anonymous ones, two handlers at once, one valid and one
\* invalid body, every kind of answer from the generation service and the store
Next ==
    Step(Slots, SessionResults, {ValidBody1, With("title", Str(""))},
         MainResults, DbFailures, {0})

Spec == Init /\ [][Next]_vars

\* one caller, one handler at a time, every body
NextValidation ==
    Step({"h1"}, {sess \in SessionResults : sess.user # "u2"}, Bodies,
         MainResults, DbFailures, {0})

SpecValidation == Init /\ [][NextValidation]_vars

\* one caller, two handlers at once, two bodies and two texts, the
\* collaborators always answering
NextRoundTrip ==
    Step(Slots, {[ok |-> TRUE, user |-> "u1"]}, {ValidBody1, ValidBody2},
         {r \in Completions : Truthy(r.content)}, {"none"}, {0})

SpecRoundTrip == Init /\ [][NextRoundTrip]_vars

\* getMaxTokens on its own, called once with any of the arguments
InitTokens ==
    /\ store = {}
    /\ nextId = 1
    /\ now = 0
    /\ apiKey = TRUE
    /\ reqs = [s \in Slots |-> Idle]
    /\ response = NoResponse
    /\ page = InitialPage
    /\ call \in {[NoCall EXCEPT !.fn = "getMaxTokens", !.arg = Str(a)] :
                    a \in SizeArguments}

NextTokens == Return_getMaxTokens

\* one caller, one handler at a time, the clock read at two instants
Instants == {0, 1}

NextClock ==
    Step({"h1"}, {sess \in SessionResults : sess.user # "u2"}, {ValidBody1},
         MainResults, DbFailures, Instants)

SpecClock == Init /\ [][NextClock]_vars

SpecTokens == InitTokens /\ [][NextTokens]_vars

\* the dashboard page on its own
NextPage ==
    \/ EditForm
    \/ SubmitForm
    \/ \E ok \in BOOLEAN : GenerateReturns(ok)
    \/ Refetch
    \/ \E value \in {"generate", "history", "view"} : setActiveTab(value)
    \/ \E article \in Ids : handleSelectArticle(article)
    \/ \E articleId \in Ids : DeleteStart(articleId)
    \/ \E d \in page.deletes, ok \in BOOLEAN : DeleteReturns(d, ok)

InitPage == Init /\ apiKey

SpecPage == InitPage /\ [][NextPage]_vars

\* buildArticlePrompt on its own, called once with any of the settings
InitPrompt ==
    /\ store = {}
    /\ nextId = 1
    /\ now = 0
    /\ apiKey = TRUE
    /\ reqs = [s \in Slots |-> Idle]
    /\ response = NoResponse
    /\ page = InitialPage
    /\ call \in {[NoCall EXCEPT !.fn = "buildArticlePrompt", !.arg = Obj(d)] :
                    d \in PromptArguments}

NextPrompt == Return_buildArticlePrompt

SpecPrompt == InitPrompt /\ [][NextPrompt]_vars

\* the history component on its own, mounted with any of the article lists
InitHistory ==
    /\ store = {}
    /\ nextId = 1
    /\ now = 0
    /\ apiKey = TRUE
    /\ reqs = [s \in Slots |-> Idle]
    /\ response = NoResponse
    /\ page = InitialPage
    /\ call \in {Mount(articles) : articles \in ArticleLists}

NextHistory ==
    \/ ArticleHistory_Render
    \/ \E value \in SearchTerms : setSearchTerm(value)
    \/ \E value \in FilterTypes : setFilterType(value)
    \/ \E value \in SortFields : setSortField(value)
    \/ toggleSortOrder

SpecHistory == InitHistory /\ [][NextHistory]_vars

----------------------------------------------------------------------------
(* What the claims speak of *)

\* the step in which the handler in slot s sends its response
Responds(s) == reqs[s].pc # "idle" /\ reqs'[s].pc = "idle"

\* the database statement of the response's request ran (it did not throw)
Ran == response.status \in {200, 404}

\* the rows with the response's id that belong to the response's caller
OwnRows == {a \in store : a.id = response.id /\ a.userId = response.session}

----------------------------------------------------------------------------
(* C1: get-by-id gives an article to its owner only: a get for an id that  *)
(* is missing, or is another user's, ends NotFound (404) and never with    *)
(* the article.  (The select leaves the store as it found it, so the store *)
(* of the state that holds the response is the store the select read.)     *)
C1_GetOnlyByOwner ==
    (response.op = "get" /\ Ran /\ OwnRows = {}) => response.status = 404

----------------------------------------------------------------------------
(* C2: a delete-by-id for an id whose row belongs to another user answers  *)
(* NotFound and leaves the store as it was (a store failure, answered 500, *)
(* aside).                                                                 *)
C2_ForeignDeleteRefused ==
    [][\A s \in Slots :
          (/\ Responds(s)
           /\ reqs[s].op = "delete"
           /\ reqs[s].pc = "awaitDb"
           /\ \E a \in store : a.id = reqs[s].id /\ a.userId # reqs[s].session)
          => (store' = store /\ response'.status \in {404, 500})]_vars

----------------------------------------------------------------------------
(* C3: a generate, list, get or delete request whose session resolves to   *)
(* no user is answered 401 having called nothing but getSession, and no    *)
(* request without a session user is ever left waiting on the generation   *)
(* service or the store.                                                   *)
C3_UnauthorizedRefusedFirst ==
    /\ (/\ response.op \in {"generate", "list", "get", "delete"}
        /\ response.sessionOk
        /\ response.session = NoUser)
       => (response.status = 401 /\ response.calls = <<"getSession">>)
    /\ \A s \in Slots : reqs[s].pc # "idle" => reqs[s].session \in Users

\* an anonymous delete is refused while there is an article to delete
C3_Witness ==
    /\ response.op = "delete"
    /\ response.sessionOk
    /\ response.session = NoUser
    /\ response.status = 401
    /\ \E a \in store : a.id = response.id

----------------------------------------------------------------------------
(* C4: a generate request of a signed-in caller whose body fails the       *)
(* settings schema (an enumerated field outside its set, an empty or       *)
(* over-long title or keywords, a structure flag that is no boolean, an    *)
(* empty language, a missing field) is answered 400 having called nothing  *)
(* but getSession: the generation service is not called and nothing is     *)
(* inserted, and no such request is ever left waiting on either.           *)
C4_InvalidBodyRejected ==
    /\ (/\ response.op = "generate"
        /\ response.sessionOk
        /\ response.session \in Users
        /\ response.body \in InvalidBodies)
       => (/\ response.status = 400
           /\ response.error = "Invalid request data"
           /\ response.calls = <<"getSession">>)
    /\ \A s \in Slots :
           reqs[s].op = "generate" => reqs[s].body \notin InvalidBodies

\* a title one character too long is refused
C4_Witness ==
    /\ response.op = "generate"
    /\ response.session \in Users
    /\ response.body = With("title", Str(Repeat("t", TitleMax + 1)))
    /\ response.status = 400

----------------------------------------------------------------------------
(* C5: every row of the store holds non-empty text, and a row enters the   *)
(* store only in the insert step of a generate request that called the     *)
(* generation service first and got non-empty text from it; the row's      *)
(* content is that text.                                                   *)
NonEmptyText(x) == x.t = "string" /\ x.v # ""

C5_NoArticleWithoutContent ==
    /\ [](\A a \in store : NonEmptyText(a.content))
    /\ [][\A a \in store' \ store :
             \E s \in Slots :
                 /\ Responds(s)
                 /\ reqs[s].op = "generate"
                 /\ reqs[s].calls =
                        <<"getSession", "openai.chat.completions.create",
                          "db.insert">>
                 /\ NonEmptyText(reqs[s].generatedContent)
                 /\ a = reqs[s].articleData
                 /\ a.content = reqs[s].generatedContent]_vars

\* an article is stored although its caller went away during generation
C5_Witness ==
    /\ response.op = "generate"
    /\ response.status = 200
    /\ ~response.connected
    /\ \E a \in store :
           a.id = response.json.articleId /\ a.content = response.generatedContent

----------------------------------------------------------------------------
(* C6: when the generation succeeded and the insert fails, the response is *)
(* an error (never the success response) and the store is as it was; the   *)
(* success response is sent only with the row in the store.                *)
C6_FailedInsertIsNotSuccess ==
    [][\A s \in Slots :
          (Responds(s) /\ reqs[s].pc = "awaitInsert")
          => IF reqs[s].articleData \in store'
             THEN response'.status = 200
             ELSE /\ response'.status \in {409, 500}
                  /\ response'.json = NoJson
                  /\ store' = store]_vars

\* the generation gave text, the insert was tried, and the answer is an error
C6_Witness ==
    /\ response.op = "generate"
    /\ response.calls =
           <<"getSession", "openai.chat.completions.create", "db.insert">>
    /\ NonEmptyText(response.generatedContent)
    /\ response.status = 500
    /\ \A a \in store : a.content # response.generatedContent

----------------------------------------------------------------------------
(* C7: deletion is a hard delete and is not repeatable.  When the store    *)
(* runs the statement: the owner's delete of an existing article answers   *)
(* success and removes the row; an id that was handed out and has no row   *)
(* and no pending insert never gets a row again; a delete of an id without *)
(* a row answers NotFound and changes nothing; a get of an id without a    *)
(* row answers NotFound and a list gives rows of the store only.           *)
HasRow(rows, id) == \E a \in rows : a.id = id

\* the id was handed out, has no row and no insert of it is pending
Gone(id) ==
    /\ id < nextId
    /\ ~HasRow(store, id)
    /\ \A s \in Slots :
           reqs[s].pc = "awaitInsert" => reqs[s].articleData.id # id

DeleteRuns(s) ==
    /\ Responds(s)
    /\ reqs[s].op = "delete"
    /\ reqs[s].pc = "awaitDb"
    /\ response'.status # 500

C7_DeleteOnceThenNotFound ==
    /\ []((response.op = "get" /\ Ran /\ ~HasRow(store, response.id))
              => response.status = 404)
    /\ []((response.op = "list" /\ response.status = 200)
              => \A i \in DOMAIN response.json : response.json[i] \in store)
    /\ [][/\ \A s \in Slots :
               DeleteRuns(s) =>
                   IF \E a \in store :
                          a.id = reqs[s].id /\ a.userId = reqs[s].session
                   THEN /\ response'.status = 200
                        /\ ~HasRow(store', reqs[s].id)
                        /\ Gone(reqs[s].id)'
                   ELSE HasRow(store, reqs[s].id) \/
                            (response'.status = 404 /\ store' = store)
          /\ \A id \in Ids : Gone(id) => Gone(id)']_vars

\* the owner's delete has succeeded and a second delete of the id is about to run
C7_Witness ==
    /\ response.op = "delete"
    /\ response.status = 200
    /\ Gone(response.id)
    /\ \E s \in Slots :
           /\ reqs[s].pc = "awaitDb"
           /\ reqs[s].op = "delete"
           /\ reqs[s].id = response.id

----------------------------------------------------------------------------
(* C8: round trip.  When the step right after the one that created an      *)
(* article is the select of its owner's get-by-id for the new id, the get  *)
(* answers the article with the title, the content and the eight settings  *)
(* that the create step was given: the validated body's and the text the   *)
(* generation service returned.                                            *)
SettingsOf(validatedData) ==
    [f \in {"articleType", "articleSize", "tone", "pointOfView", "readability",
            "aiCleaning", "structure", "language"} |-> validatedData[f]]

C8_RoundTrip ==
    [][(/\ response.op = "generate"
        /\ response.status = 200
        /\ response'.op = "get"
        /\ response'.id = response.json.articleId
        /\ response'.session = response.session
        /\ response'.status # 500)
       => (/\ response'.status = 200
           /\ response'.json.id = response.json.articleId
           /\ response'.json.title = response.body.v.title
           /\ response'.json.content = response.generatedContent
           /\ response'.json.settings = SettingsOf(response.body.v))]_vars

\* the article was just created and its owner's get for it is about to select
C8_Witness ==
    /\ response.op = "generate"
    /\ response.status = 200
    /\ response.body = ValidBody2
    /\ \E s \in Slots :
           /\ reqs[s].pc = "awaitDb"
           /\ reqs[s].op = "get"
           /\ reqs[s].id = response.json.articleId
           /\ reqs[s].session = response.session

----------------------------------------------------------------------------
(* C9: list by owner.  A list that answers 200 to user U carries every     *)
(* article of the store whose owner is U and no article of another owner.  *)
Listed == {response.json[i] : i \in DOMAIN response.json}

C9_ListByOwner ==
    (response.op = "list" /\ response.status = 200)
        => Listed = {a \in store : a.userId = response.session}

\* a list answered with an article while the store holds another owner's
C9_Witness ==
    /\ response.op = "list"
    /\ response.status = 200
    /\ Len(response.json) >= 1
    /\ \E a \in store : a.userId # response.session

----------------------------------------------------------------------------
(* C10: token budget.  getMaxTokens returns 2000 for X-Small, 4000 for     *)
(* Small, 6000 for Medium, 8000 for Large and 4000 for any other value,    *)
(* and a generation call in flight was given the budget of its body's      *)
(* articleSize as max_tokens.                                              *)
TokenBudget(size) ==
    CASE size = "X-Small" -> 2000
      [] size = "Small" -> 4000
      [] size = "Medium" -> 6000
      [] size = "Large" -> 8000
      [] OTHER -> 4000

C10_TokenBudgetMapping ==
    /\ (call.fn = "getMaxTokens" /\ call.returned)
           => call.ret = Num(TokenBudget(call.arg.v))
    /\ \A s \in Slots :
           reqs[s].pc = "awaitOpenAI"
               => reqs[s].maxTokens = Num(TokenBudget(reqs[s].body.v.articleSize.v))

----------------------------------------------------------------------------
(* What the claims about buildArticlePrompt speak of *)

\* buildArticlePrompt was called on its own and has returned or thrown
Built == call.fn = "buildArticlePrompt" /\ call.returned

\* the settings it was called with, and the text it returned
Data == call.arg.v
Prompt == call.ret.v

\* the allowed values of the enumerated fields
Allowed ==
    [articleType |-> ArticleTypes, articleSize |-> ArticleSizes, tone |-> Tones,
     pointOfView |-> PointsOfView, readability |-> Readabilities,
     aiCleaning |-> AiCleanings]

----------------------------------------------------------------------------
(* C11: when buildArticlePrompt is given a value outside the allowed set   *)
(* for articleType, articleSize, tone, pointOfView, readability or         *)
(* aiCleaning, it fails: it throws and returns no prompt.                  *)
C11_UnknownValueFailsCompile ==
    (Built /\ \E f \in DOMAIN Allowed : Data[f].v \notin Allowed[f])
        => call.ret.t = "throw"

----------------------------------------------------------------------------
(* C12: for tone, pointOfView, readability and aiCleaning the prompt holds *)
(* no clause of the axis when the value is the neutral one, one clause     *)
(* with the table's text when the value is in the table, and one clause    *)
(* with the value itself when it is not; with an allowed articleSize the   *)
(* builder does not throw whatever these four values are.                  *)
Axes ==
    {[field |-> "tone", label |-> "Tone", neutral |-> "None",
      instructions |-> toneInstructions],
     [field |-> "pointOfView", label |-> "Point of View", neutral |-> "None",
      instructions |-> povInstructions],
     [field |-> "readability", label |-> "Readability Level", neutral |-> "None",
      instructions |-> readabilityInstructions],
     [field |-> "aiCleaning", label |-> "Content Style",
      neutral |-> "No AI Words Removal", instructions |-> cleaningInstructions]}

C12_AxisClauses ==
    (Built /\ Data.articleSize.v \in ArticleSizes)
        => /\ call.ret.t = "string"
           /\ \A ax \in Axes :
                  LET value == Data[ax.field].v
                      lead == "\n- " \o ax.label \o ": "
                      text == IF value \in DOMAIN ax.instructions
                              THEN ax.instructions[value].v
                              ELSE value
                  IN  IF value = ax.neutral
                      THEN Occurrences(Prompt, lead) = {}
                      ELSE /\ Cardinality(Occurrences(Prompt, lead)) = 1
                           /\ Includes(Prompt, lead \o text \o "\n")

----------------------------------------------------------------------------
(* C13: a prompt built from settings whose articleType is "None" holds no  *)
(* "Article Type:" clause; built from any other articleType it holds       *)
(* exactly one, and that clause names the type.  (Title and keywords are   *)
(* free of the clause's words.)                                            *)
C13_ArticleTypeClause ==
    (Built /\ call.ret.t = "string")
        => IF Data.articleType.v = "None"
           THEN Occurrences(Prompt, "Article Type:") = {}
           ELSE /\ Cardinality(Occurrences(Prompt, "Article Type:")) = 1
                /\ Includes(Prompt, "\n- Article Type: " \o Data.articleType.v \o "\n")

\* a prompt was built from settings whose articleType is "None"
C13_Witness ==
    /\ Built
    /\ call.ret.t = "string"
    /\ Data.articleType.v = "None"
    /\ Data.tone.v # "None"

----------------------------------------------------------------------------
(* C14: for every combination of the nine structure flags the prompt holds *)
(* one "Include:" line that lists the labels of the true flags, once each, *)
(* in the order conclusion, faqSection, tables, h3Headings, lists,         *)
(* italics, bold, quotes, keyTakeaways, and holds no such line when every  *)
(* flag is false.                                                          *)
DeclaredOrder ==
    <<"conclusion", "faqSection", "tables", "h3Headings", "lists", "italics",
      "bold", "quotes", "keyTakeaways">>

LabelOf(flag) ==
    LET i == CHOOSE i \in DOMAIN structureLabels : structureLabels[i][1] = flag
    IN  structureLabels[i][2]

TrueFlags == {f \in StructureFlags : Data.structure.v[f] = Bool(TRUE)}

C14_IncludeLine ==
    (Built /\ call.ret.t = "string")
        => LET flags == SelectSeq(DeclaredOrder, LAMBDA f : f \in TrueFlags)
               labels == [i \in 1..Len(flags) |-> LabelOf(flags[i])]
           IN  IF TrueFlags = {}
               THEN Occurrences(Prompt, "Include:") = {}
               ELSE /\ Cardinality(Occurrences(Prompt, "Include:")) = 1
                    /\ Includes(Prompt, "\n- Include: " \o Join(labels, ", ") \o "\n")

\* a prompt was built with lists, conclusion and quotes on and the rest off
C14_Witness ==
    /\ Built
    /\ call.ret.t = "string"
    /\ TrueFlags = {"lists", "conclusion", "quotes"}

----------------------------------------------------------------------------
(* C15: the settings title "Best Coffee", keywords "coffee,brew",          *)
(* articleType Listicle, articleSize Small, tone Friendly, only lists and  *)
(* conclusion on, language "en" give a prompt that holds "1200-2400", the  *)
(* Friendly tone clause and "Include: Lists, Conclusion", and a token      *)
(* budget of 4000.                                                         *)
ExampleBuilt == Built /\ call.arg = ValidBody1

ExampleRest ==
    /\ call.ret.t = "string"
    /\ Includes(Prompt, "1200-2400")
    /\ Includes(Prompt, "\n- Tone: Use a warm, approachable, and conversational tone\n")
    /\ getMaxTokens(Data.articleSize.v) = Num(4000)

C15_Example ==
    ExampleBuilt => (ExampleRest /\ Includes(Prompt, "Include: Lists, Conclusion"))

(* C15, as the builder has it: the same settings give a prompt that holds  *)
(* "1200-2400", the Friendly tone clause and the line "- Include:          *)
(* Conclusion section, Bulleted or numbered lists", and a token budget of  *)
(* 4000.                                                                   *)
C15_ExampleAsBuilt ==
    ExampleBuilt
        => /\ ExampleRest
           /\ Includes(Prompt,
                       "\n- Include: Conclusion section, Bulleted or numbered lists\n")

C15_Witness == ExampleBuilt /\ call.ret.t = "string"

----------------------------------------------------------------------------
(* C16: the prompt names the target language by the table's name for a     *)
(* code of the table and by "English" for every other code, the same name  *)
(* at each of the four places where the language is named, and an unknown  *)
(* code does not make the builder throw.                                   *)
C16_LanguageName ==
    (Built /\ Data.articleSize.v \in ArticleSizes)
        => LET code == Data.language.v
               name == IF code \in DOMAIN languageNames
                       THEN languageNames[code].v
                       ELSE "English"
           IN  /\ call.ret.t = "string"
               /\ Includes(Prompt, "article in " \o name \o " based on")
               /\ Includes(Prompt, "\n- Target Language: " \o name \o "\n")
               /\ Includes(Prompt, "(" \o name \o " language)")
               /\ Includes(Prompt, "punctuation in " \o name \o "\n")

----------------------------------------------------------------------------
(* What the claims about the history list speak of *)

\* the history component has rendered
Listing == call.fn = "ArticleHistory" /\ call.returned

History == call.arg.v
Shown == call.ret

\* the letters a and b are the same, case aside
SameLetter(a, b) ==
    \/ a = b
    \/ a \in DOMAIN UpperToLower /\ UpperToLower[a] = b
    \/ b \in DOMAIN UpperToLower /\ UpperToLower[b] = a

\* text holds term somewhere, case aside
HoldsIgnoringCase(text, term) ==
    \E start \in 0..(Len(text) - Len(term)) :
        \A k \in 1..Len(term) :
            SameLetter(SubSeq(text, start + k, start + k), SubSeq(term, k, k))

Kept(article) ==
    /\ \/ HoldsIgnoringCase(article.title, History.searchTerm)
       \/ HoldsIgnoringCase(article.keywords, History.searchTerm)
    /\ \/ History.filterType = "all"
       \/ History.filterType = article.settings.articleType

Elements(seq) == {seq[i] : i \in DOMAIN seq}

----------------------------------------------------------------------------
(* C17: the history shows an article of the fetched collection exactly     *)
(* when the search term is held, case aside, by its title or by its        *)
(* keywords, and the filter type is "all" or is its articleType; with the  *)
(* empty term and "all" every article is shown; what is shown is part of   *)
(* the collection, each article once, and showing it touches neither the   *)
(* store nor any request.                                                  *)
C17_HistoryFilter ==
    /\ [](Listing =>
            /\ Elements(Shown) = {a \in Elements(History.articles) : Kept(a)}
            /\ Len(Shown) = Cardinality(Elements(Shown))
            /\ (History.searchTerm = "" /\ History.filterType = "all")
                   => Elements(Shown) = Elements(History.articles))
    /\ [][call.fn = "ArticleHistory" => UNCHANGED <<store, reqs, response>>]_vars

\* "guide" typed in any case over the collection of "How-to Guide" and "Recipe"
C17_Witness ==
    /\ Listing
    /\ History.articles = <<HowToGuide, Recipe>>
    /\ History.searchTerm = "GUIDE"
    /\ History.filterType = "all"
    /\ Shown = <<HowToGuide>>

----------------------------------------------------------------------------
(* C18: sorted by articleSize, the history is a rearrangement of the kept  *)
(* articles whose ranks X-Small 1, Small 2, Medium 3, Large 4 never fall   *)
(* from one article to the next when ascending and never rise when         *)
(* descending; [Large, X-Small, Medium] ascending is [X-Small, Medium,     *)
(* Large].                                                                 *)
SizeRank(article) ==
    CASE article.settings.articleSize = "X-Small" -> 1
      [] article.settings.articleSize = "Small" -> 2
      [] article.settings.articleSize = "Medium" -> 3
      [] article.settings.articleSize = "Large" -> 4

C18_SizeSort ==
    (Listing /\ History.sortField = "articleSize")
        => /\ Elements(Shown) = {a \in Elements(History.articles) : Kept(a)}
           /\ Len(Shown) = Cardinality(Elements(Shown))
           /\ \A i, j \in DOMAIN Shown :
                  i < j => IF History.sortOrder = "asc"
                           THEN SizeRank(Shown[i]) <= SizeRank(Shown[j])
                           ELSE SizeRank(Shown[i]) >= SizeRank(Shown[j])
           /\ (/\ History.articles = <<HowToGuide, Recipe, BestCoffee>>
               /\ History.searchTerm = ""
               /\ History.filterType = "all"
               /\ History.sortOrder = "asc")
                  => Shown = <<Recipe, BestCoffee, HowToGuide>>

\* [Large, X-Small, Medium] sorted by size, ascending
C18_Witness ==
    /\ Listing
    /\ History.articles = <<HowToGuide, Recipe, BestCoffee>>
    /\ History.searchTerm = ""
    /\ History.filterType = "all"
    /\ History.sortField = "articleSize"
    /\ History.sortOrder = "asc"

----------------------------------------------------------------------------
(* C19: a generate request whose generation call came back without error   *)
(* but with empty or missing text is answered with an error, made no       *)
(* insert, and is never left waiting on one; the step that answers it      *)
(* leaves the store as it was.                                             *)
EmptyOutput(result) == result.kind = "resolves" /\ ~NonEmptyText(result.content)

C19_EmptyOutputIsError ==
    /\ []((response.op = "generate" /\ EmptyOutput(response.result))
              => /\ response.status = 500
                 /\ response.json = NoJson
                 /\ response.calls = <<"getSession", "openai.chat.completions.create">>)
    /\ [](\A s \in Slots :
              EmptyOutput(reqs[s].result) => reqs[s].pc # "awaitInsert")
    /\ [][(response'.op = "generate" /\ EmptyOutput(response'.result))
              => store' = store]_vars

\* the generation call came back with an empty text and the request got its error
C19_Witness ==
    /\ response.op = "generate"
    /\ response.result.kind = "resolves"
    /\ response.result.content = Str("")
    /\ response.status = 500

----------------------------------------------------------------------------
(* C20: a generate request whose generation call failed is answered by the *)
(* failure's type: insufficient_quota 503 "temporarily unavailable",       *)
(* invalid_request_error 400 "please try again", anything else the generic *)
(* 500; it made no insert, and the step that answers it leaves the store   *)
(* as it was.                                                              *)
GenerationFailed(result) == result.kind \in {"rejects", "fails"}

C20_FailureClassified ==
    /\ []((response.op = "generate" /\ GenerationFailed(response.result))
              => /\ response.json = NoJson
                 /\ response.calls = <<"getSession", "openai.chat.completions.create">>
                 /\ CASE response.result.type = "insufficient_quota" ->
                             /\ response.status = 503
                             /\ response.error =
                                    "AI service temporarily unavailable. Please try again later."
                      [] response.result.type = "invalid_request_error" ->
                             /\ response.status = 400
                             /\ response.error =
                                    "Invalid AI service request. Please try again."
                      [] OTHER ->
                             /\ response.status = 500
                             /\ response.error =
                                    "Failed to generate article. Please try again.")
    /\ [](\A s \in Slots :
              GenerationFailed(reqs[s].result) => reqs[s].pc # "awaitInsert")
    /\ [][(response'.op = "generate" /\ GenerationFailed(response'.result))
              => store' = store]_vars

\* the service reported exhausted capacity while another article is stored
C20_Witness ==
    /\ response.op = "generate"
    /\ response.result.kind = "rejects"
    /\ response.result.type = "insufficient_quota"
    /\ response.status = 503
    /\ store # {}

----------------------------------------------------------------------------
(* C21: the error that ends a failing generate request tells its kind:     *)
(* two failing requests of different kinds among unauthorized, validation, *)
(* generation-unavailable, generation-invalid, another failed or empty     *)
(* generation, and persistence-failure never get the same status and       *)
(* message.  (Checked on two requests answered one right after the other.) *)
Failing(r) == r.op = "generate" /\ r.status # 200

FailureKind(r) ==
    IF ~r.sessionOk THEN "other"
    ELSE IF r.session = NoUser THEN "unauthorized"
    ELSE IF r.body.t = "syntaxerror" THEN "other"
    ELSE IF ~generateRequestSchema(r.body) THEN "validation"
    ELSE IF r.result.kind = "rejects" /\ r.result.type = "insufficient_quota"
    THEN "generation-unavailable"
    ELSE IF r.result.kind = "rejects" /\ r.result.type = "invalid_request_error"
    THEN "generation-invalid"
    ELSE IF r.result.kind \in {"rejects", "fails"} THEN "generation-failed"
    ELSE IF r.result.kind = "resolves" /\ ~NonEmptyText(r.result.content)
    THEN "generation-failed"
    ELSE IF r.result.kind = "resolves" THEN "persistence-failure"
    ELSE "other"

C21_ErrorKindsTellApart ==
    [][(/\ Failing(response)
        /\ Failing(response')
        /\ FailureKind(response) # "other"
        /\ FailureKind(response') # "other"
        /\ FailureKind(response) # FailureKind(response'))
       => <<response.status, response.error>>
              # <<response'.status, response'.error>>]_vars

----------------------------------------------------------------------------
(* C22: a generate request sends at most one request to the generation     *)
(* service; once the service has answered, the handler never waits on it   *)
(* again, and after a failure or an empty output it answers with an error  *)
(* having called the service once.                                         *)
GenerationCalls(calls) ==
    Cardinality({i \in DOMAIN calls : calls[i] = "openai.chat.completions.create"})

----------------------------------------------------------------------------
(* C23: without the generation service's key every generate request ends   *)
(* with an error having called nothing but getSession: none is ever left   *)
(* waiting on the generation service or on an insert, and the store stays  *)
(* empty.                                                                  *)
C23_MissingKeyIsFatal ==
    ~apiKey
        => /\ store = {}
           /\ \A s \in Slots : reqs[s].pc \notin {"awaitOpenAI", "awaitInsert"}
           /\ response.op = "generate"
                  => /\ response.status >= 400
                     /\ response.calls = <<"getSession">>
                     /\ response.result = NoResult

\* a signed-in caller's valid request was refused for the missing key
C23_Witness ==
    /\ ~apiKey
    /\ response.op = "generate"
    /\ response.sessionOk
    /\ response.session # NoUser
    /\ response.body = ValidBody1
    /\ response.status = 500
    /\ response.error = "AI service configuration error. Please contact support."

----------------------------------------------------------------------------
(* C24: a new article gets an id that no article of the store has, and its *)
(* createdAt and updatedAt are the same timestamp; the ids of the store    *)
(* are pairwise distinct.                                                  *)
C24_FreshIdOneTimestamp ==
    /\ [](\A a \in store : a.createdAt = a.updatedAt)
    /\ [](\A a, b \in store : a.id = b.id => a = b)
    /\ [][\A a \in store' \ store : \A b \in store : b.id # a.id]_vars

----------------------------------------------------------------------------
(* C25: no step changes an article that stays in the store (a row of the   *)
(* store whose id is still there afterwards is there unchanged, in every   *)
(* field); the store changes only when a generate request adds its one     *)
(* row, leaving the others, or a delete request removes the rows of its    *)
(* id, leaving the others.                                                 *)
C25_StoredArticleImmutable ==
    [][/\ \A a \in store : HasRow(store', a.id) => a \in store'
       /\ store' # store =>
              \E s \in Slots :
                  /\ Responds(s)
                  /\ \/ /\ reqs[s].op = "generate"
                        /\ reqs[s].articleData \notin store
                        /\ store' = store \cup {reqs[s].articleData}
                     \/ /\ reqs[s].op = "delete"
                        /\ store' = {a \in store : a.id # reqs[s].id}]_vars

\* a delete was answered with success and another article is still stored
C25_Witness ==
    /\ response.op = "delete"
    /\ response.status = 200
    /\ \E a \in store : a.id # response.id

----------------------------------------------------------------------------
(* C26: when two deletes of the same owner for the same existing id are in *)
(* flight together and the store runs their statements, the first to run   *)
(* reports success and removes the row, the other then observes NotFound,  *)
(* and the article is absent afterwards.                                   *)
Racing(s, t) ==
    /\ s # t
    /\ reqs[s].pc = "awaitDb" /\ reqs[s].op = "delete"
    /\ reqs[t].pc = "awaitDb" /\ reqs[t].op = "delete"
    /\ reqs[s].id = reqs[t].id
    /\ reqs[s].session = reqs[t].session
    /\ \E a \in store : a.id = reqs[s].id /\ a.userId = reqs[s].session

C26_ConcurrentDeletes ==
    [][/\ \A s, t \in Slots :
              (Racing(s, t) /\ DeleteRuns(s))
                  => /\ response'.status = 200
                     /\ ~HasRow(store', reqs[s].id)
                     /\ reqs'[t] = reqs[t]
       /\ (/\ response.op = "delete"
           /\ response.status = 200
           /\ response'.op = "delete"
           /\ response'.id = response.id
           /\ response'.session = response.session
           /\ response'.status # 500)
              => /\ response'.status = 404
                 /\ ~HasRow(store', response.id)]_vars

\* the first of two racing deletes has succeeded and the other is about to run
C26_Witness ==
    /\ response.op = "delete"
    /\ response.status = 200
    /\ \E t \in Slots :
           /\ reqs[t].pc = "awaitDb"
           /\ reqs[t].op = "delete"
           /\ reqs[t].id = response.id
           /\ reqs[t].session = response.session

----------------------------------------------------------------------------
(* C29: whenever a generate request is answered with success, the store    *)
(* holds an article with the returned articleId, owned by the request's    *)
(* session user, whose title, content and settings are the returned ones.  *)
C29_SuccessMeansStored ==
    (response.op = "generate" /\ response.status = 200)
        => \E a \in store :
               /\ a.id = response.json.articleId
               /\ a.userId = response.session
               /\ a.title = response.json.title
               /\ a.content = response.json.content
               /\ a.settings = response.json.settings

\* the second article of the store was just answered with success
C29_Witness ==
    /\ response.op = "generate"
    /\ response.status = 200
    /\ response.json.success
    /\ Cardinality(store) = 2

----------------------------------------------------------------------------
\* C27: in the dashboard page, when a delete of article X completes
\* successfully, the article selected and shown in the view tab is not X,
\* whatever the user did while the delete request was in flight.
C27_DeletedNotShown ==
    [][\A d \in page.deletes :
           (d \notin page'.deletes /\ page'.toast = "Article deleted successfully!")
               => ~(page'.activeTab = "view"
                    /\ page'.selectedArticle = d.articleId)]_vars

\* C28: in every reachable state of the dashboard page the active tab is
\* "view" only if an article is selected.
C28_ViewNeedsSelection ==
    page.activeTab = "view" => page.selectedArticle # NoArticle

\* a delete has cleared the selection and moved to the history tab, while a
\* delete started when its own article was the selected one is in flight
C28_Witness ==
    /\ page.activeTab = "history"
    /\ page.selectedArticle = NoArticle
    /\ page.toast = "Article deleted successfully!"
    /\ \E d \in page.deletes : d.selectedArticle = d.articleId

\* C30: when a generate request is answered, either it failed and the page
\* is as it was but for the error toast and the pending flag, or it succeeded
\* and the page is on the history tab with the form reset and the article
\* list invalidated; the list is invalidated only by a successful answer.
C30_FailedGenerateChangesNothing ==
    [][/\ (page.generating /\ ~page'.generating) =>
              \/ /\ page'.toast = "Failed to generate article"
                 /\ page' = [page EXCEPT !.generating = FALSE,
                                         !.toast = "Failed to generate article"]
                 /\ nextId' = nextId
              \/ /\ page'.toast = "Article generated successfully!"
                 /\ page'.activeTab = "history"
                 /\ ~page'.formDirty
                 /\ page'.stale
       /\ (~page.stale /\ page'.stale) =>
              page'.toast \in {"Article generated successfully!",
                               "Article deleted successfully!"}]_vars

\* a generate request has failed while the user was on the generate tab with
\* typed values in the form and a fetched article list
C30_Witness ==
    /\ page.toast = "Failed to generate article"
    /\ page.activeTab = "generate"
    /\ page.formDirty
    /\ ~page.stale
    /\ page.articles # {}

====
